---- MODULE Spec2Model ----
(***************************************************************************)
(* A model of browser_tab_cleaner.py: one run of main(), from the parsed   *)
(* command line to the process exit, with the three tab predicates as      *)
(* operators computed character by character as the Python code computes   *)
(* them.                                                                   *)
(*                                                                         *)
(* A Python str is a sequence of one-character strings.  A Python dict is  *)
(* a function whose DOMAIN is the set of keys present, so dict.get(k, d)   *)
(* is Get(dict, k, d).                                                     *)
(***************************************************************************)
EXTENDS Integers, Sequences, FiniteSets, TLC

----------------------------------------------------------------------------
(* Python str and dict primitives used by the program.                     *)

LowerLetters == <<"a","b","c","d","e","f","g","h","i","j","k","l","m","n","o","p","q","r","s","t","u","v","w","x","y","z">>
UpperLetters == <<"A","B","C","D","E","F","G","H","I","J","K","L","M","N","O","P","Q","R","S","T","U","V","W","X","Y","Z">>
Digits == <<"0","1","2","3","4","5","6","7","8","9">>
Whitespace == <<" ","\t","\n","\r">>

Range(s) == {s[n] : n \in 1..Len(s)}

IndexOf(c, s) == CHOOSE n \in 1..Len(s) : s[n] = c

\* str.lower() and str.upper() on one character.
LowerChar(c) == IF c \in Range(UpperLetters) THEN LowerLetters[IndexOf(c, UpperLetters)] ELSE c
UpperChar(c) == IF c \in Range(LowerLetters) THEN UpperLetters[IndexOf(c, LowerLetters)] ELSE c

lower(s) == [n \in 1..Len(s) |-> LowerChar(s[n])]
upper(s) == [n \in 1..Len(s) |-> UpperChar(s[n])]

\* s.startswith(prefix)
startswith(s, prefix) == Len(prefix) <= Len(s) /\ SubSeq(s, 1, Len(prefix)) = prefix

\* `sub in s`
contains(sub, s) == \E n \in 0..(Len(s) - Len(sub)) : SubSeq(s, n + 1, n + Len(sub)) = sub

\* s.find(c, start): the least index >= start holding a character of cs, or 0.
FindAny(s, cs, start) ==
  LET hits == {n \in start..Len(s) : s[n] \in cs}
  IN IF hits = {} THEN 0 ELSE CHOOSE n \in hits : \A m \in hits : n <= m

RECURSIVE lstrip(_)
lstrip(s) == IF Len(s) > 0 /\ s[1] \in Range(Whitespace) THEN lstrip(Tail(s)) ELSE s

RECURSIVE rstrip(_)
rstrip(s) == IF Len(s) > 0 /\ s[Len(s)] \in Range(Whitespace) THEN rstrip(SubSeq(s, 1, Len(s) - 1)) ELSE s

\* s.strip()
strip(s) == rstrip(lstrip(s))

\* dict.get(key, default)
Get(dict, key, default) == IF key \in DOMAIN dict THEN dict[key] ELSE default

\* The items of a list: any(...) and a for-loop that returns at its first hit
\* both ask whether some item passes.
Items(list) == {list[n] : n \in 1..Len(list)}

----------------------------------------------------------------------------
(* _is_empty_tab                                                           *)

empty_urls ==
  << <<"c","h","r","o","m","e",":","/","/","n","e","w","t","a","b","/">>,
     <<"a","b","o","u","t",":","b","l","a","n","k">>,
     <<"c","h","r","o","m","e",":","/","/","n","e","w","-","t","a","b","-","p","a","g","e","/">>,
     <<"e","d","g","e",":","/","/","n","e","w","t","a","b","/">>,
     <<"a","b","o","u","t",":","n","e","w","t","a","b">> >>

error_indicators ==
  << <<"T","h","i","s"," ","s","i","t","e"," ","c","a","n","'","t"," ","b","e"," ","r","e","a","c","h","e","d">>,
     <<"P","a","g","e"," ","n","o","t"," ","f","o","u","n","d">>,
     <<"S","e","r","v","e","r"," ","n","o","t"," ","f","o","u","n","d">>,
     <<"C","o","n","n","e","c","t","i","o","n"," ","t","i","m","e","d"," ","o","u","t">>,
     <<"D","N","S","_","P","R","O","B","E","_","F","I","N","I","S","H","E","D">>,
     <<"E","R","R","_">>,
     <<"C","a","n","n","o","t"," ","c","o","n","n","e","c","t"," ","t","o">>,
     <<"F","a","i","l","e","d"," ","t","o"," ","l","o","a","d">>,
     <<"U","n","t","i","t","l","e","d">> >>

NewTabPrefix == <<"N","e","w"," ","t","a","b"," ","p","a","g","e",":"," ">>
FailedLoadPrefix == <<"F","a","i","l","e","d"," ","l","o","a","d"," ","d","e","t","e","c","t","e","d",":"," ">>
EmptyTitlePrefix == <<"E","m","p","t","y"," ","t","i","t","l","e",":"," ">>

\* The (should_close, reason) pair a predicate returns.
Decision(close, reason) == [close |-> close, reason |-> reason]
NoDecision == Decision(FALSE, <<>>)

_is_empty_tab(tab) ==
  LET url == Get(tab, "url", <<>>)
      title == Get(tab, "title", <<>>)
      IsEmptyUrl(empty_url) == startswith(url, empty_url)
      IsIndicated(indicator) == contains(lower(indicator), lower(title))
  IN IF (\E item \in Items(empty_urls) : IsEmptyUrl(item))
       THEN Decision(TRUE, NewTabPrefix \o url)
     ELSE IF (\E item \in Items(error_indicators) : IsIndicated(item))
       THEN Decision(TRUE, FailedLoadPrefix \o title)
     ELSE IF Len(strip(title)) = 0
       THEN Decision(TRUE, EmptyTitlePrefix \o url)
     ELSE NoDecision

----------------------------------------------------------------------------
(* _is_jenkins_tab                                                         *)

jenkins_domains ==
  << <<"a","r","t","-","j","e","n","k","i","n","s",".","a","p","p","s",".">>,
     <<"j","e","n","k","i","n","s",".">>,
     <<"c","i",".","j","e","n","k","i","n","s",".","i","o">>,
     <<"h","u","d","s","o","n",".">>,
     <<"b","u","i","l","d","b","o","t",".">> >>

console_patterns ==
  << <<"/","c","o","n","s","o","l","e">>,
     <<"/","c","o","n","s","o","l","e","F","u","l","l">>,
     <<"c","o","n","s","o","l","e","T","e","x","t">>,
     <<"/","l","o","g">> >>

completion_indicators ==
  << <<"S","U","C","C","E","S","S">>,
     <<"F","A","I","L","U","R","E">>,
     <<"A","B","O","R","T","E","D">>,
     <<"U","N","S","T","A","B","L","E">>,
     <<"C","O","M","P","L","E","T","E","D">> >>

ConsoleLogPrefix == <<"J","e","n","k","i","n","s"," ","c","o","n","s","o","l","e"," ","l","o","g",":"," ">>
CompletedBuildPrefix == <<"C","o","m","p","l","e","t","e","d"," ","J","e","n","k","i","n","s"," ","b","u","i","l","d",":"," ">>
JenkinsPagePrefix == <<"J","e","n","k","i","n","s"," ","p","a","g","e",":"," ">>

\* Mutant: the completion keywords are looked for in the title as it is.
_is_jenkins_tab_case_sensitive(tab) ==
  LET url == Get(tab, "url", <<>>)
      title == Get(tab, "title", <<>>)
      InUrl(fragment) == contains(fragment, url)
      InTitle(indicator) == contains(indicator, title)
      is_jenkins_domain == (\E item \in Items(jenkins_domains) : InUrl(item))
  IN IF ~is_jenkins_domain
       THEN NoDecision
     ELSE IF (\E item \in Items(console_patterns) : InUrl(item))
       THEN Decision(TRUE, ConsoleLogPrefix \o url)
     ELSE IF (\E item \in Items(completion_indicators) : InTitle(item))
       THEN Decision(TRUE, CompletedBuildPrefix \o title)
     ELSE Decision(TRUE, JenkinsPagePrefix \o url)

_is_jenkins_tab(tab) ==
  LET url == Get(tab, "url", <<>>)
      title == Get(tab, "title", <<>>)
      InUrl(fragment) == contains(fragment, url)
      InTitle(indicator) == contains(indicator, upper(title))
      is_jenkins_domain == (\E item \in Items(jenkins_domains) : InUrl(item))
  IN IF ~is_jenkins_domain
       THEN NoDecision
     ELSE IF (\E item \in Items(console_patterns) : InUrl(item))
       THEN Decision(TRUE, ConsoleLogPrefix \o url)
     ELSE IF is_jenkins_domain
       THEN IF (\E item \in Items(completion_indicators) : InTitle(item))
              THEN Decision(TRUE, CompletedBuildPrefix \o title)
              ELSE Decision(TRUE, JenkinsPagePrefix \o url)
     ELSE NoDecision

----------------------------------------------------------------------------
(* urllib.parse.urlparse(url).netloc, as urlsplit computes it: leading     *)
(* whitespace is stripped, tab/CR/LF are removed, a leading scheme is cut  *)
(* off at the first ':', and after "//" the netloc runs to the first of    *)
(* '/', '?' and '#'.  A netloc with one square bracket but not the other   *)
(* raises ValueError.                                                      *)

SchemeChars == Range(LowerLetters) \cup Range(UpperLetters) \cup Range(Digits) \cup {"+", "-", "."}
UnsafeUrlChars == {"\t", "\r", "\n"}

RECURSIVE RemoveChars(_, _)
RemoveChars(s, cs) ==
  IF s = <<>> THEN <<>>
  ELSE IF Head(s) \in cs THEN RemoveChars(Tail(s), cs)
  ELSE <<Head(s)>> \o RemoveChars(Tail(s), cs)

\* The url left once urlsplit has cut the scheme off.
AfterScheme(url) ==
  LET i == FindAny(url, {":"}, 1)
  IN IF /\ i > 1
        /\ url[1] \in Range(LowerLetters) \cup Range(UpperLetters)
        /\ \A n \in 1..(i - 1) : url[n] \in SchemeChars
       THEN SubSeq(url, i + 1, Len(url))
       ELSE url

\* _splitnetloc(url, 2)
SplitNetloc(url) ==
  LET delim == FindAny(url, {"/", "?", "#"}, 3)
  IN IF delim = 0 THEN SubSeq(url, 3, Len(url)) ELSE SubSeq(url, 3, delim - 1)

urlparse_netloc(url0) ==
  LET url == AfterScheme(RemoveChars(lstrip(url0), UnsafeUrlChars))
      netloc == IF Len(url) >= 2 /\ SubSeq(url, 1, 2) = <<"/", "/">> THEN SplitNetloc(url) ELSE <<>>
      open == "[" \in Range(netloc)
      shut == "]" \in Range(netloc)
  IN [ok |-> open = shut, netloc |-> netloc]

----------------------------------------------------------------------------
(* re.search(pattern, url) for the patterns of RegexPool: literals, '.',   *)
(* '^', '$' and backslash escapes.  re.error is raised by a pattern that   *)
(* starts with a repeat character, has a '[' that is never closed, has     *)
(* unbalanced parentheses, or ends in a lone backslash.                    *)

RepeatChars == {"*", "+", "?"}

Count(c, s) == Cardinality({n \in 1..Len(s) : s[n] = c})

\* The pattern ends inside an escape: an odd run of backslashes closes it.
RECURSIVE EndsInEscape(_)
EndsInEscape(p) ==
  IF p = <<>> THEN FALSE
  ELSE IF Head(p) = "\\" THEN (Len(p) = 1 \/ EndsInEscape(Tail(Tail(p))))
  ELSE EndsInEscape(Tail(p))

re_error(pattern) ==
  \/ (Len(pattern) > 0 /\ pattern[1] \in RepeatChars)
  \/ \E n \in 1..Len(pattern) :
        /\ pattern[n] = "["
        /\ (n = 1 \/ pattern[n - 1] # "\\")
        /\ ~\E m \in (n + 2)..Len(pattern) : pattern[m] = "]"
  \/ Count("(", pattern) # Count(")", pattern)
  \/ EndsInEscape(pattern)

\* Whether pattern[a..] matches s starting at position pos.
RECURSIVE MatchHere(_, _, _, _)
MatchHere(pattern, a, s, pos) ==
  IF a > Len(pattern) THEN TRUE
  ELSE IF pattern[a] = "^" THEN pos = 1 /\ MatchHere(pattern, a + 1, s, pos)
  ELSE IF pattern[a] = "$" THEN pos = Len(s) + 1 /\ MatchHere(pattern, a + 1, s, pos)
  ELSE IF pattern[a] = "\\"
    THEN pos <= Len(s) /\ s[pos] = pattern[a + 1] /\ MatchHere(pattern, a + 2, s, pos + 1)
  ELSE IF pattern[a] = "."
    THEN pos <= Len(s) /\ s[pos] # "\n" /\ MatchHere(pattern, a + 1, s, pos + 1)
  ELSE pos <= Len(s) /\ s[pos] = pattern[a] /\ MatchHere(pattern, a + 1, s, pos + 1)

re_search(pattern, s) == \E pos \in 1..(Len(s) + 1) : MatchHere(pattern, 1, s, pos)

----------------------------------------------------------------------------
(* _is_configurable_site_tab                                               *)

ColonSpace == <<":", " ">>
UnknownSite == <<"U","n","k","n","o","w","n"," ","s","i","t","e">>

\* The body of `for pattern in patterns`: should_close for one pattern.
should_close_for(match_type, pattern, url) ==
  IF match_type = "domain_contains" THEN contains(pattern, url)
  ELSE IF match_type = "domain_exact"
    THEN LET parsed_url == urlparse_netloc(url)
         IN parsed_url.ok /\ lower(parsed_url.netloc) = lower(pattern)
  ELSE IF match_type = "url_contains" THEN contains(pattern, url)
  ELSE IF match_type = "url_regex" THEN ~re_error(pattern) /\ re_search(pattern, url)
  ELSE FALSE

\* `for pattern in patterns`, from the k-th pattern on: whether one returns.
RECURSIVE PatternLoop(_, _, _, _)
PatternLoop(patterns, k, match_type, url) ==
  IF k > Len(patterns) THEN FALSE
  ELSE IF should_close_for(match_type, patterns[k], url) THEN TRUE
  ELSE PatternLoop(patterns, k + 1, match_type, url)

\* Mutant: the 'enabled' key is not consulted.
site_enabled_ignored(site_config) == TRUE

\* site_config.get('enabled', True)
site_enabled(site_config) == Get(site_config, "enabled", TRUE)

\* `for site_config in config.get('configurable_sites', [])`, from the n-th on.
RECURSIVE SiteLoop(_, _, _)
SiteLoop(sites, n, url) ==
  IF n > Len(sites) THEN NoDecision
  ELSE LET site_config == sites[n]
       IN IF ~site_enabled(site_config) THEN SiteLoop(sites, n + 1, url)
          ELSE LET name == Get(site_config, "name", UnknownSite)
                   patterns == Get(site_config, "patterns", <<>>)
                   match_type == Get(site_config, "match_type", "domain_contains")
               IN IF PatternLoop(patterns, 1, match_type, url)
                    THEN Decision(TRUE, name \o ColonSpace \o url)
                    ELSE SiteLoop(sites, n + 1, url)

_is_configurable_site_tab(tab, config) ==
  SiteLoop(Get(config, "configurable_sites", <<>>), 1, Get(tab, "url", <<>>))

----------------------------------------------------------------------------
(* The run: main() and clean_chrome_tabs().                                *)

VARIABLES
  pc,             \* where the run is: main, get_tabs, load_config, scan, close, exited
  args,           \* the parsed command line (argparse's store_true flags)
  tabs,           \* the list _get_chrome_tabs returned
  config,         \* the dict _load_config returned
  config_loaded,  \* whether _load_config has been called
  i,              \* `for tab in tabs`: index of the next tab to decide
  tabs_to_close,  \* the (tab, reason) pairs; tab is the index of the dict in tabs
  k,              \* `for tab, reason in tabs_to_close`: index of the next pair
  closed_count,
  exit_code,      \* "none" while running, then the process exit status
  net,            \* every HTTP GET issued, in order, with its outcome
  out,            \* every line group printed, in order
  probe,          \* the arguments of the predicate under test (predicate specifications)
  verdict         \* what the predicate under test returned

vars == <<pc, args, tabs, config, config_loaded, i, tabs_to_close, k, closed_count,
          exit_code, net, out, probe, verdict>>

run_vars == <<pc, args, tabs, config, config_loaded, i, tabs_to_close, k, closed_count,
              exit_code, net, out>>

\* The longest tab list the browser returns.
MaxTabs == 2

Seqs(S, n) == UNION {[1..m -> S] : m \in 0..n}

\* The tab records the browser may return; every field may be absent.
TabPool ==
  { [id |-> <<"A","1">>, url |-> <<"c","h","r","o","m","e",":","/","/","n","e","w","t","a","b","/">>, title |-> <<"N","e","w"," ","T","a","b">>],
    [id |-> <<"B","2">>, url |-> <<"c","h","r","o","m","e",":","/","/","n","e","w","-","t","a","b","-","p","a","g","e","/">>, title |-> <<"N","e","w"," ","T","a","b">>],
    [id |-> <<"C","3">>, url |-> <<"h","t","t","p","s",":","/","/","j","e","n","k","i","n","s",".","e","x","a","m","p","l","e",".","c","o","m","/","j","o","b","/","x","/","1","2","3","/","c","o","n","s","o","l","e">>, title |-> <<"x"," ","#","1","2","3"," ","C","o","n","s","o","l","e">>],
    [id |-> <<"D","4">>, url |-> <<"h","t","t","p","s",":","/","/","e","x","a","m","p","l","e",".","c","o","m","/","p","a","t","h">>, title |-> <<"D","o","c","s">>],
    [id |-> <<"E","5">>, url |-> <<"c","h","r","o","m","e",":","/","/","s","e","t","t","i","n","g","s","/">>, title |-> <<>>],
    [id |-> <<>>, url |-> <<"h","t","t","p","s",":","/","/","j","e","n","k","i","n","s",".","e","x","a","m","p","l","e",".","c","o","m","/">>, title |-> <<"e","r","r","_","f","a","i","l","e","d">>],
    [title |-> <<" ">>] }

TabLists == Seqs(TabPool, MaxTabs)

\* What the configuration file may hold: nothing (no file), text that is not
\* JSON, or a JSON object.
ConfigFiles ==
  { [state |-> "missing", json |-> << >>],
    [state |-> "malformed", json |-> << >>],
    [state |-> "ok", json |-> [other_key |-> << >>]],
    [state |-> "ok", json |-> [configurable_sites |->
        << [name |-> <<"O","f","f">>, patterns |-> << <<"j","e","n","k","i","n","s">> >>,
            match_type |-> "url_contains", enabled |-> FALSE],
           [name |-> <<"E","x","a","m","p","l","e">>, patterns |-> << <<"e","x","a","m","p","l","e",".","c","o","m">> >>,
            match_type |-> "domain_contains"] >>]] }

\* What a GET may end in: an HTTP status, or requests' exception.
FetchFailures == {"500", "ConnectionError", "Timeout"}
CloseOutcomes == {"200", "404", "ConnectionError"}

Flags == [jenkins_only : BOOLEAN, empty_only : BOOLEAN, configurable_only : BOOLEAN, dry_run : BOOLEAN]

Bool2Int(b) == IF b THEN 1 ELSE 0

\* GET requests and printed lines, as records of one shape.
Request(path, id, idx, status) == [path |-> path, id |-> id, idx |-> idx, status |-> status]
Line(msg, n) == [msg |-> msg, n |-> n]

NoProbe == [tab |-> << >>, config |-> << >>]

Init ==
  /\ pc = "main"
  /\ args \in Flags
  /\ tabs = << >>
  /\ config = << >>
  /\ config_loaded = FALSE
  /\ i = 1
  /\ tabs_to_close = << >>
  /\ k = 1
  /\ closed_count = 0
  /\ exit_code = "none"
  /\ net = << >>
  /\ out = << >>
  /\ probe = NoProbe
  /\ verdict = NoDecision

\* sys.exit(status), or main() returning (status 0).
Exit(status, lines) ==
  /\ pc' = "exited"
  /\ exit_code' = status
  /\ out' = out \o lines

\* sum(exclusive_options)
ExclusiveCount(a) == Bool2Int(a.jenkins_only) + Bool2Int(a.empty_only) + Bool2Int(a.configurable_only)

\* Mutant: the validation compares with 2.
ConflictingFlags_off_by_one(a) == ExclusiveCount(a) > 2

ConflictingFlags(a) == ExclusiveCount(a) > 1

\* main(): validate the mutually exclusive options, then call clean_chrome_tabs.
Main ==
  /\ pc = "main"
  /\ IF ConflictingFlags(args)
       THEN Exit("1", <<Line("Error: Can only specify one of", 0)>>)
       ELSE /\ pc' = "get_tabs"
            /\ out' = Append(out, Line("Getting Chrome tabs...", 0))
            /\ UNCHANGED exit_code
  /\ UNCHANGED <<args, tabs, config, config_loaded, i, tabs_to_close, k, closed_count, net,
                 probe, verdict>>

\* Mutant: the except block prints and does not exit, so None is returned and
\* clean_chrome_tabs takes it for an empty list.
GetTabsFails_without_exit ==
  /\ pc = "get_tabs"
  /\ \E failure \in FetchFailures :
       net' = Append(net, Request("/json", << >>, 0, failure))
  /\ Exit("0", <<Line("Error connecting to Chrome DevTools", 0), Line("Error details", 0),
                 Line("No tabs found.", 0)>>)
  /\ UNCHANGED <<args, tabs, config, config_loaded, i, tabs_to_close, k, closed_count,
                 probe, verdict>>

\* _get_chrome_tabs(): the GET raises RequestException, and the process exits.
GetTabsFails ==
  /\ pc = "get_tabs"
  /\ \E failure \in FetchFailures :
       net' = Append(net, Request("/json", << >>, 0, failure))
  /\ Exit("1", <<Line("Error connecting to Chrome DevTools", 0), Line("Error details", 0)>>)
  /\ UNCHANGED <<args, tabs, config, config_loaded, i, tabs_to_close, k, closed_count,
                 probe, verdict>>

\* _get_chrome_tabs() returns the list; clean_chrome_tabs returns on an empty one.
GetTabsReturns ==
  /\ pc = "get_tabs"
  /\ \E list \in TabLists :
       /\ tabs' = list
       /\ net' = Append(net, Request("/json", << >>, 0, "200"))
       /\ IF list = << >>
            THEN Exit("0", <<Line("No tabs found.", 0)>>)
            ELSE /\ pc' = "load_config"
                 /\ out' = Append(out, Line("Found total tabs", Len(list)))
                 /\ UNCHANGED exit_code
  /\ UNCHANGED <<args, config, config_loaded, i, tabs_to_close, k, closed_count, probe, verdict>>

\* _load_config(config_path)
_load_config(file) ==
  IF file.state = "ok" THEN file.json ELSE [configurable_sites |-> << >>]

\* len([site for site in config.get('configurable_sites', []) if site.get('enabled', True)])
EnabledCount(cfg) ==
  LET sites == Get(cfg, "configurable_sites", << >>)
  IN Cardinality({n \in 1..Len(sites) : Get(sites[n], "enabled", TRUE)})

LoadConfig ==
  /\ pc = "load_config"
  /\ \E file \in ConfigFiles :
       /\ config' = _load_config(file)
       /\ out' = out
            \o (IF file.state = "malformed" THEN <<Line("Warning: Could not load config file", 0)>> ELSE << >>)
            \o (IF EnabledCount(_load_config(file)) > 0
                  THEN <<Line("Loaded configuration", EnabledCount(_load_config(file)))>>
                  ELSE << >>)
  /\ config_loaded' = TRUE
  /\ tabs_to_close' = << >>
  /\ i' = 1
  /\ pc' = "scan"
  /\ UNCHANGED <<args, tabs, k, closed_count, exit_code, net, probe, verdict>>

----------------------------------------------------------------------------
(* The dispatch loop and the closer.                                       *)

Unknown == <<"U","n","k","n","o","w","n">>
ChromeExtensionScheme == <<"c","h","r","o","m","e","-","e","x","t","e","n","s","i","o","n",":","/","/">>
ChromeScheme == <<"c","h","r","o","m","e",":","/","/">>
ChromeNewtab == <<"c","h","r","o","m","e",":","/","/","n","e","w","t","a","b">>

\* "Skip Chrome extension and internal pages": whether the loop body continues.
SkipInternal(url) ==
  /\ (startswith(url, ChromeExtensionScheme) \/ startswith(url, ChromeScheme))
  /\ ~startswith(url, ChromeNewtab)

\* Mutant: the later predicate calls lack `and not should_close`.
Dispatch_without_short_circuit(tab, a, cfg) ==
  LET d0 == NoDecision
      d1 == IF ~a.jenkins_only /\ ~a.configurable_only /\ _is_empty_tab(tab).close
              THEN _is_empty_tab(tab) ELSE d0
      d2 == IF ~a.empty_only /\ ~a.configurable_only /\ _is_jenkins_tab(tab).close
              THEN _is_jenkins_tab(tab) ELSE d1
      d3 == IF ~a.empty_only /\ ~a.jenkins_only /\ _is_configurable_site_tab(tab, cfg).close
              THEN _is_configurable_site_tab(tab, cfg) ELSE d2
  IN d3

\* The three guarded predicate calls of the loop body, in their order; each runs
\* only if its mode guard holds and (after the first) should_close is still False.
Dispatch(tab, a, cfg) ==
  LET d0 == NoDecision
      d1 == IF ~a.jenkins_only /\ ~a.configurable_only /\ _is_empty_tab(tab).close
              THEN _is_empty_tab(tab) ELSE d0
      d2 == IF ~a.empty_only /\ ~a.configurable_only /\ ~d1.close /\ _is_jenkins_tab(tab).close
              THEN _is_jenkins_tab(tab) ELSE d1
      d3 == IF ~a.empty_only /\ ~a.jenkins_only /\ ~d2.close /\ _is_configurable_site_tab(tab, cfg).close
              THEN _is_configurable_site_tab(tab, cfg) ELSE d2
  IN d3

\* Mutant: a collected pair is inserted at the front of tabs_to_close.
ScanTab_prepending ==
  /\ pc = "scan"
  /\ i <= Len(tabs)
  /\ LET tab == tabs[i]
         url == Get(tab, "url", Unknown)
         d == Dispatch(tab, args, config)
     IN tabs_to_close' =
          IF SkipInternal(url) THEN tabs_to_close
          ELSE IF d.close THEN <<[tab |-> i, reason |-> d.reason]>> \o tabs_to_close
          ELSE tabs_to_close
  /\ i' = i + 1
  /\ UNCHANGED <<pc, args, tabs, config, config_loaded, k, closed_count, exit_code, net, out,
                 probe, verdict>>

\* One iteration of `for tab in tabs`.
ScanTab ==
  /\ pc = "scan"
  /\ i <= Len(tabs)
  /\ LET tab == tabs[i]
         url == Get(tab, "url", Unknown)
         d == Dispatch(tab, args, config)
     IN tabs_to_close' =
          IF SkipInternal(url) THEN tabs_to_close
          ELSE IF d.close THEN Append(tabs_to_close, [tab |-> i, reason |-> d.reason])
          ELSE tabs_to_close
  /\ i' = i + 1
  /\ UNCHANGED <<pc, args, tabs, config, config_loaded, k, closed_count, exit_code, net, out,
                 probe, verdict>>

\* After the loop: return if nothing was collected, else print the header.
ScanDone ==
  /\ pc = "scan"
  /\ i > Len(tabs)
  /\ IF tabs_to_close = << >>
       THEN /\ Exit("0", <<Line("No tabs found matching the cleanup criteria.", 0)>>)
            /\ UNCHANGED <<k, closed_count>>
       ELSE /\ pc' = "close"
            /\ out' = Append(out, Line(IF args.dry_run THEN "Would close" ELSE "Closing",
                                       Len(tabs_to_close)))
            /\ closed_count' = 0
            /\ k' = 1
            /\ UNCHANGED exit_code
  /\ UNCHANGED <<args, tabs, config, config_loaded, i, tabs_to_close, net, probe, verdict>>

\* `not tab_id`: no id, or an empty one.
NoTabId(tab) == "id" \notin DOMAIN tab \/ tab.id = << >>

\* Mutant: dry_run is not consulted.
_close_tab_ignoring_dry_run(tab, dry_run, outcome) ==
  IF NoTabId(tab) THEN [returns |-> FALSE, requested |-> FALSE]
  ELSE [returns |-> (outcome = "200"), requested |-> TRUE]

\* Mutant: any HTTP response counts as closed, whatever its status.
_close_tab_any_status(tab, dry_run, outcome) ==
  IF NoTabId(tab) THEN [returns |-> FALSE, requested |-> FALSE]
  ELSE IF dry_run THEN [returns |-> TRUE, requested |-> FALSE]
  ELSE [returns |-> (outcome # "ConnectionError"), requested |-> TRUE]

\* _close_tab(tab, dry_run), the GET ending in `outcome` if it is issued:
\* what it returns, and whether the GET is issued.
_close_tab(tab, dry_run, outcome) ==
  IF NoTabId(tab) THEN [returns |-> FALSE, requested |-> FALSE]
  ELSE IF dry_run THEN [returns |-> TRUE, requested |-> FALSE]
  ELSE [returns |-> (outcome = "200"), requested |-> TRUE]

\* One iteration of `for tab, reason in tabs_to_close`.
CloseTab ==
  /\ pc = "close"
  /\ k <= Len(tabs_to_close)
  /\ \E outcome \in CloseOutcomes :
       LET tab == tabs[tabs_to_close[k].tab]
           r == _close_tab(tab, args.dry_run, outcome)
       IN /\ net' = IF r.requested
                      THEN Append(net, Request("/json/close/", tab.id, k, outcome))
                      ELSE net
          /\ closed_count' = IF r.returns THEN closed_count + 1 ELSE closed_count
  /\ out' = Append(out, Line("Title/URL/Reason", k))
  /\ k' = k + 1
  /\ UNCHANGED <<pc, args, tabs, config, config_loaded, i, tabs_to_close, exit_code,
                 probe, verdict>>

\* After the loop: the summary, and main() returns.
Summary ==
  /\ pc = "close"
  /\ k > Len(tabs_to_close)
  /\ Exit("0", <<Line(IF args.dry_run THEN "Summary: tabs would be closed" ELSE "Summary: tabs closed",
                      closed_count)>>
               \o (IF args.dry_run THEN <<Line("To actually close these tabs", 0)>> ELSE << >>))
  /\ UNCHANGED <<args, tabs, config, config_loaded, i, tabs_to_close, k, closed_count, net,
                 probe, verdict>>

\* KeyboardInterrupt inside clean_chrome_tabs: main() catches it and exits 0.
Interrupt ==
  /\ pc \in {"get_tabs", "load_config", "scan", "close"}
  /\ Exit("0", <<Line("Operation cancelled by user.", 0)>>)
  /\ UNCHANGED <<args, tabs, config, config_loaded, i, tabs_to_close, k, closed_count, net,
                 probe, verdict>>

Next ==
  \/ Main
  \/ GetTabsFails
  \/ GetTabsReturns
  \/ LoadConfig
  \/ ScanTab
  \/ ScanDone
  \/ CloseTab
  \/ Summary
  \/ Interrupt

Spec == Init /\ [][Next]_vars

----------------------------------------------------------------------------
(* The predicates on their own: each specification draws the arguments of  *)
(* one predicate and applies it once.                                      *)

\* The most rules a configuration under test holds.
MaxRules == 2

Idle ==
  /\ args = [jenkins_only |-> FALSE, empty_only |-> FALSE, configurable_only |-> FALSE,
             dry_run |-> FALSE]
  /\ tabs = << >>
  /\ config = << >>
  /\ config_loaded = FALSE
  /\ i = 1
  /\ tabs_to_close = << >>
  /\ k = 1
  /\ closed_count = 0
  /\ exit_code = "none"
  /\ net = << >>
  /\ out = << >>

\* Tab dicts with a url and a title from the given values, either possibly absent.
Records(url_values, title_values) ==
  {[url |-> u, title |-> t] : u \in url_values, t \in title_values}
    \cup {[url |-> u] : u \in url_values}
    \cup {[title |-> t] : t \in title_values}

JenkinsUrls ==
  { <<"h","t","t","p","s",":","/","/","j","e","n","k","i","n","s",".","e","x","a","m","p","l","e",".","c","o","m","/","j","o","b","/","x","/","1","2","3","/","c","o","n","s","o","l","e">>,
    <<"h","t","t","p","s",":","/","/","j","e","n","k","i","n","s",".","e","x","a","m","p","l","e",".","c","o","m","/","j","o","b","/","x","/","1","2","3","/">>,
    <<"h","t","t","p","s",":","/","/","c","i",".","j","e","n","k","i","n","s",".","i","o","/","j","o","b","/","y","/","c","o","n","s","o","l","e","T","e","x","t">>,
    <<"h","t","t","p","s",":","/","/","h","u","d","s","o","n",".","c","o","r","p","/","l","o","g","i","n">>,
    <<"h","t","t","p","s",":","/","/","b","u","i","l","d","b","o","t",".","n","e","t","/","b","u","i","l","d","e","r","s">>,
    <<"h","t","t","p","s",":","/","/","a","r","t","-","j","e","n","k","i","n","s",".","a","p","p","s",".","e","x","a","m","p","l","e","/","j","o","b","/","z","/","5","/","c","o","n","s","o","l","e","F","u","l","l">>,
    <<"h","t","t","p","s",":","/","/","e","x","a","m","p","l","e",".","c","o","m","/","j","e","n","k","i","n","s","/","c","o","n","s","o","l","e">>,
    <<"h","t","t","p","s",":","/","/","e","x","a","m","p","l","e",".","c","o","m","/","?","q","=","j","e","n","k","i","n","s",".">>,
    <<"h","t","t","p","s",":","/","/","J","E","N","K","I","N","S",".","e","x","a","m","p","l","e",".","c","o","m","/">>,
    <<"a","b","o","u","t",":","b","l","a","n","k">> }

JenkinsTitles ==
  { <<>>, <<"x"," ","#","1","2"," ","S","U","C","C","E","S","S">>, <<"b","u","i","l","d"," ","s","u","c","c","e","s","s">>, <<"F","a","i","l","u","r","e",":"," ","y">>, <<"D","a","s","h","b","o","a","r","d">>, <<"U","n","s","t","a","b","l","e">> }

JenkinsProbes == Records(JenkinsUrls, JenkinsTitles)

InitJenkins ==
  /\ pc = "probe"
  /\ \E tab \in JenkinsProbes : probe = [tab |-> tab, config |-> << >>]
  /\ verdict = NoDecision
  /\ Idle

ApplyJenkins ==
  /\ pc = "probe"
  /\ verdict' = _is_jenkins_tab(probe.tab)
  /\ pc' = "probed"
  /\ UNCHANGED <<args, tabs, config, config_loaded, i, tabs_to_close, k, closed_count,
                 exit_code, net, out, probe>>

NextJenkins == ApplyJenkins

SpecJenkins == InitJenkins /\ [][NextJenkins]_vars

SiteUrls ==
  { <<"h","t","t","p","s",":","/","/","e","x","a","m","p","l","e",".","c","o","m","/","p","a","t","h">>,
    <<"h","t","t","p","s",":","/","/","s","u","b",".","e","x","a","m","p","l","e",".","c","o","m","/","p","a","t","h">>,
    <<"h","t","t","p","s",":","/","/","e","x","a","m","p","l","e",".","c","o","m",":","8","0","8","0","/","p","a","t","h">>,
    <<"h","t","t","p","s",":","/","/","u","s","e","r","@","e","x","a","m","p","l","e",".","c","o","m","/">>,
    <<"h","t","t","p",":","/","/","E","X","A","M","P","L","E",".","c","o","m","?","q","=","1">>,
    <<"f","t","p",":","/","/","e","x","a","m","p","l","e",".","c","o","m","#","f","r","a","g">>,
    <<"e","x","a","m","p","l","e",".","c","o","m","/","p","a","t","h">>,
    <<"h","t","t","p","s",":","/","/","n","o","t","e","x","a","m","p","l","e",".","c","o","m",".","e","v","i","l",".","o","r","g","/","e","x","a","m","p","l","e",".","c","o","m">>,
    <<"h","t","t","p",":","/","/","[",":",":","1","/","x">>,
    <<"h","t","t","p","s",":","/","/","n","e","w","s",".","e","x","a","m","p","l","e",".","o","r","g","/","a">> }

RulePool ==
  { [name |-> <<"E","x","a","m","p","l","e">>, patterns |-> << <<"e","x","a","m","p","l","e",".","c","o","m">> >>, match_type |-> "domain_exact",
     enabled |-> TRUE],
    [name |-> <<"S","h","o","u","t","i","n","g">>, patterns |-> << <<"E","x","a","m","p","l","e",".","C","O","M">> >>, match_type |-> "domain_exact"],
    [name |-> <<"O","f","f">>, patterns |-> << <<"e","x","a","m","p","l","e">> >>, match_type |-> "url_contains",
     enabled |-> FALSE],
    [name |-> <<"N","e","w","s">>, patterns |-> << <<"(">>, <<"^","h","t","t","p","s",":","/","/","n","e","w","s","\\",".">> >>, match_type |-> "url_regex",
     enabled |-> TRUE],
    [patterns |-> << <<"e","v","i","l">>, <<"e","x","a","m","p","l","e",".","c","o","m">> >>],
    [name |-> <<"T","y","p","o">>, patterns |-> << <<"e","x","a","m","p","l","e",".","c","o","m">> >>, match_type |-> "domain_suffix"],
    [name |-> <<"P","a","t","h">>, patterns |-> << <<"/","p","a","t","h">> >>, match_type |-> "url_contains"],
    [name |-> <<"T","a","i","l">>, patterns |-> << <<"*","x">>, <<"e",".","a","m","p","l","e","\\",".","c","o","m","$">> >>, match_type |-> "url_regex"],
    [name |-> <<"B","a","r","e">>, enabled |-> TRUE],
    [name |-> <<"B","r","o","k","e","n">>, patterns |-> << <<"[">>, <<"a","\\">> >>, match_type |-> "url_regex"] }

SiteProbes ==
  {[tab |-> tab, config |-> cfg] :
     tab \in {[url |-> u, title |-> <<"D","o","c","s">>] : u \in SiteUrls} \cup {[title |-> <<"D","o","c","s">>]},
     cfg \in {[configurable_sites |-> sites] : sites \in Seqs(RulePool, MaxRules)}
               \cup {[other_key |-> << >>]}}

InitConfigurable ==
  /\ pc = "probe"
  /\ probe \in SiteProbes
  /\ verdict = NoDecision
  /\ Idle

ApplyConfigurable ==
  /\ pc = "probe"
  /\ verdict' = _is_configurable_site_tab(probe.tab, probe.config)
  /\ pc' = "probed"
  /\ UNCHANGED <<args, tabs, config, config_loaded, i, tabs_to_close, k, closed_count,
                 exit_code, net, out, probe>>

NextConfigurable == ApplyConfigurable

SpecConfigurable == InitConfigurable /\ [][NextConfigurable]_vars

----------------------------------------------------------------------------
(* Properties of the run.                                                  *)

IsListRequest(r) == r.path = "/json"
IsCloseRequest(r) == r.path = "/json/close/"
ListRequests == SelectSeq(net, IsListRequest)
CloseRequests == SelectSeq(net, IsCloseRequest)

IsHeader(l) == l.msg \in {"Would close", "Closing"}
IsSummary(l) == l.msg \in {"Summary: tabs would be closed", "Summary: tabs closed"}
Headers == SelectSeq(out, IsHeader)
Summaries == SelectSeq(out, IsSummary)
Cancelled == \E n \in 1..Len(out) : out[n].msg = "Operation cancelled by user."

\* The tabs the dispatch loop has decided so far, and those it collected.
Decided == 1..(i - 1)
Collected(n) == \E m \in 1..Len(tabs_to_close) : tabs_to_close[m].tab = n
ReasonOf(n) == tabs_to_close[CHOOSE m \in 1..Len(tabs_to_close) : tabs_to_close[m].tab = n].reason
HasTabId(tab) == "id" \in DOMAIN tab /\ Len(tab.id) > 0
CollectedWithId == {m \in 1..Len(tabs_to_close) : HasTabId(tabs[tabs_to_close[m].tab])}

FlagsSet == Cardinality({f \in {"jenkins_only", "empty_only", "configurable_only"} : args[f]})

\* C1 as stated: in dry-run mode no close request is issued, and the count in
\* the summary equals the number of tabs collected for closing, the N of the
\* "Would close N tabs" header.
C1_DryRunSummaryEqualsHeader ==
  args.dry_run =>
    /\ CloseRequests = << >>
    /\ \A s \in 1..Len(Summaries) : \A h \in 1..Len(Headers) : Summaries[s].n = Headers[h].n

\* C1 amended: in dry-run mode no close request is issued, the header counts
\* every collected tab, and the summary counts the collected tabs that have a
\* non-empty id (a collected tab without an id is announced but not counted).
C1_DryRunSummaryCountsTabsWithId ==
  args.dry_run =>
    /\ CloseRequests = << >>
    /\ \A h \in 1..Len(Headers) : Headers[h].n = Len(tabs_to_close)
    /\ \A s \in 1..Len(Summaries) : Summaries[s].n = Cardinality(CollectedWithId)

C1_Witness ==
  /\ args.dry_run
  /\ Len(Summaries) = 1
  /\ Cardinality(CollectedWithId) = 1
  /\ Len(tabs_to_close) = 2

\* C2: with more than one of the exclusive mode flags, main exits with a
\* nonzero status before any network call: the tab list is never fetched and no
\* close request is issued.
C2_ConflictingFlagsExitBeforeNetwork ==
  FlagsSet > 1 =>
    /\ net = << >>
    /\ tabs = << >>
    /\ pc \in {"main", "exited"}
    /\ (pc = "exited" => exit_code = "1")

C2_Witness ==
  /\ args.jenkins_only /\ args.empty_only
  /\ pc = "exited"
  /\ exit_code = "1"

\* What each predicate says of the n-th tab: the predicates, tabulated over the
\* tabs the browser may return and the configurations that may be loaded.
EmptyTable == [tab \in TabPool |-> _is_empty_tab(tab)]
JenkinsTable == [tab \in TabPool |-> _is_jenkins_tab(tab)]
SiteTable ==
  [tab \in TabPool, cfg \in {_load_config(file) : file \in ConfigFiles} |->
     _is_configurable_site_tab(tab, cfg)]
EmptySays(n) == EmptyTable[tabs[n]]
JenkinsSays(n) == JenkinsTable[tabs[n]]
SiteSays(n) == SiteTable[tabs[n], config]
NotSkipped(n) ==
  LET url == IF "url" \in DOMAIN tabs[n] THEN tabs[n].url ELSE Unknown
  IN ~(startswith(url, ChromeScheme) \/ startswith(url, ChromeExtensionScheme))
       \/ startswith(url, ChromeNewtab)

\* C3: for every tab the loop does not skip: with no mode flag it is collected
\* iff at least one predicate matches, with the reason of the first match in
\* the order empty, CI, configured site; with exactly one mode flag it is
\* collected iff that one predicate matches.
C3_DispatchByMode ==
  \A n \in Decided :
    NotSkipped(n) =>
      /\ FlagsSet = 0 =>
           /\ Collected(n) <=> (EmptySays(n).close \/ JenkinsSays(n).close \/ SiteSays(n).close)
           /\ Collected(n) =>
                ReasonOf(n) = IF EmptySays(n).close THEN EmptySays(n).reason
                              ELSE IF JenkinsSays(n).close THEN JenkinsSays(n).reason
                              ELSE SiteSays(n).reason
      /\ (FlagsSet = 1 /\ args.empty_only) => (Collected(n) <=> EmptySays(n).close)
      /\ (FlagsSet = 1 /\ args.jenkins_only) => (Collected(n) <=> JenkinsSays(n).close)
      /\ (FlagsSet = 1 /\ args.configurable_only) => (Collected(n) <=> SiteSays(n).close)

\* A tab all three predicates match is collected for the empty-tab reason.
C3_Witness ==
  /\ FlagsSet = 0
  /\ \E n \in Decided :
       /\ NotSkipped(n)
       /\ EmptySays(n).close /\ JenkinsSays(n).close /\ SiteSays(n).close
       /\ Collected(n)
       /\ ReasonOf(n) = EmptySays(n).reason

StartsWithEmptyUrl(url) == \E e \in 1..Len(empty_urls) : startswith(url, empty_urls[e])

\* C4: skipping internal pages never removes a new-tab page: with no mode flag
\* or in empty-only mode every tab whose URL starts with one of the empty-tab
\* predicate's new-tab URLs is collected, and every other chrome:// or
\* chrome-extension:// tab is never collected.
C4_NewTabPagesAreNotSkipped ==
  \A n \in Decided :
    "url" \in DOMAIN tabs[n] =>
      /\ (StartsWithEmptyUrl(tabs[n].url) /\ ~args.jenkins_only /\ ~args.configurable_only)
           => Collected(n)
      /\ ( /\ ~StartsWithEmptyUrl(tabs[n].url)
           /\ (startswith(tabs[n].url, ChromeScheme) \/ startswith(tabs[n].url, ChromeExtensionScheme)) )
           => ~Collected(n)

\* C5: if the GET of the tab list fails, the run ends with a nonzero exit
\* status; the fetch is not retried, the configuration is not loaded, no tab is
\* decided and no close request is issued.
C5_FetchFailureIsFatal ==
  (\E r \in 1..Len(net) : IsListRequest(net[r]) /\ net[r].status # "200") =>
    /\ pc = "exited"
    /\ exit_code = "1"
    /\ Len(net) = 1
    /\ ~config_loaded
    /\ Decided = {}
    /\ tabs_to_close = << >>

C5_Witness ==
  /\ Len(net) = 1
  /\ net[1].status = "Timeout"
  /\ pc = "exited"

Ok200 == {r \in 1..Len(net) : IsCloseRequest(net[r]) /\ net[r].status = "200"}
FailedCloses == {r \in 1..Len(net) : IsCloseRequest(net[r]) /\ net[r].status # "200"}

\* C6: in a non-dry run a failed close is not fatal: the run goes on through
\* every later collected tab to the summary, and the summary count is the
\* number of close requests answered with HTTP 200.
C6_FailedCloseIsNotFatal ==
  ~args.dry_run =>
    /\ pc = "close" => closed_count = Cardinality(Ok200)
    /\ FailedCloses # {} =>
         /\ exit_code # "1"
         /\ pc = "close" \/ Len(Summaries) = 1 \/ Cancelled
    /\ \A s \in 1..Len(Summaries) :
         /\ Summaries[s].n = Cardinality(Ok200)
         /\ Len(CloseRequests) = Cardinality(CollectedWithId)

\* A failed close, then a successful one, then the summary.
C6_Witness ==
  /\ ~args.dry_run
  /\ Len(Summaries) = 1
  /\ Len(CloseRequests) = 2
  /\ CloseRequests[1].status = "ConnectionError"
  /\ CloseRequests[2].status = "200"

\* C10: a run is one linear pass: the tab list is fetched exactly once, every
\* tab is decided before the first close request, the collected pairs keep the
\* tab order with each tab at most once, and close requests are issued in that
\* order, at most one per collected tab, only in a non-dry run and only for
\* collected tabs that have an id.
C10_LinearPass ==
  /\ Len(ListRequests) <= 1
  /\ (pc \in {"load_config", "scan", "close"} \/ Decided # {}) => Len(ListRequests) = 1
  /\ (net # << >>) => IsListRequest(net[1])
  /\ CloseRequests # << >> => (Decided = 1..Len(tabs) /\ ~args.dry_run)
  /\ \A m \in 1..Len(tabs_to_close) : tabs_to_close[m].tab \in Decided
  /\ \A m1, m2 \in 1..Len(tabs_to_close) :
       m1 < m2 => tabs_to_close[m1].tab < tabs_to_close[m2].tab
  /\ \A r \in 1..Len(CloseRequests) :
       /\ CloseRequests[r].idx \in CollectedWithId
       /\ CloseRequests[r].idx < k
       /\ CloseRequests[r].id = tabs[tabs_to_close[CloseRequests[r].idx].tab].id
  /\ \A r1, r2 \in 1..Len(CloseRequests) :
       r1 < r2 => CloseRequests[r1].idx < CloseRequests[r2].idx

\* Two collected tabs, both closed, in the order of the tab list.
C10_Witness ==
  /\ pc = "exited"
  /\ Len(tabs_to_close) = 2
  /\ Len(CloseRequests) = 2
  /\ Len(ListRequests) = 1

----------------------------------------------------------------------------
(* Properties of the predicates.                                           *)

ProbeUrl == IF "url" \in DOMAIN probe.tab THEN probe.tab.url ELSE << >>
ProbeTitle == IF "title" \in DOMAIN probe.tab THEN probe.tab.title ELSE << >>
ProbeSites ==
  IF "configurable_sites" \in DOMAIN probe.config THEN probe.config.configurable_sites ELSE << >>

OnCiHost == \E d \in 1..Len(jenkins_domains) : contains(jenkins_domains[d], ProbeUrl)
OnConsolePath == \E c \in 1..Len(console_patterns) : contains(console_patterns[c], ProbeUrl)
TitleSaysCompleted ==
  \E c \in 1..Len(completion_indicators) :
    contains(lower(completion_indicators[c]), lower(ProbeTitle))

\* C7: _is_jenkins_tab returns close=true exactly for the tabs whose URL
\* contains a CI host-name fragment; the reason is the console-log one whenever
\* the URL contains a console/log sub-path, whatever the title, otherwise the
\* completed-build one when the title contains a completion keyword in any
\* letter case, otherwise the generic Jenkins-page one.
C7_JenkinsVerdict ==
  pc = "probed" =>
    /\ verdict.close <=> OnCiHost
    /\ OnCiHost =>
         verdict.reason = IF OnConsolePath THEN ConsoleLogPrefix \o ProbeUrl
                          ELSE IF TitleSaysCompleted THEN CompletedBuildPrefix \o ProbeTitle
                          ELSE JenkinsPagePrefix \o ProbeUrl

\* A console page whose title also names a completed build.
C7_Witness ==
  /\ pc = "probed"
  /\ OnCiHost /\ OnConsolePath /\ TitleSaysCompleted
  /\ verdict = Decision(TRUE, ConsoleLogPrefix \o ProbeUrl)

RuleOn(rule) == "enabled" \notin DOMAIN rule \/ rule.enabled
RulePatterns(rule) == IF "patterns" \in DOMAIN rule THEN rule.patterns ELSE << >>
RuleType(rule) == IF "match_type" \in DOMAIN rule THEN rule.match_type ELSE "domain_contains"
RuleName(rule) == IF "name" \in DOMAIN rule THEN rule.name ELSE UnknownSite
RuleHits(rule, url) ==
  \E p \in 1..Len(RulePatterns(rule)) : should_close_for(RuleType(rule), RulePatterns(rule)[p], url)
EnabledHits == {n \in 1..Len(ProbeSites) : RuleOn(ProbeSites[n]) /\ RuleHits(ProbeSites[n], ProbeUrl)}
Least(S) == CHOOSE n \in S : \A m \in S : n <= m

\* C8: _is_configurable_site_tab returns close=true iff some enabled rule has a
\* pattern matching the URL under the rule's match_type, and the reason names
\* the first such rule in file order; a disabled rule never matches, and an
\* invalid regex is a non-match for that pattern only.
C8_SiteVerdict ==
  pc = "probed" =>
    /\ verdict.close <=> EnabledHits # {}
    /\ EnabledHits # {} =>
         verdict.reason = RuleName(ProbeSites[Least(EnabledHits)]) \o ColonSpace \o ProbeUrl
    /\ \A n \in 1..Len(ProbeSites) : \A p \in 1..Len(RulePatterns(ProbeSites[n])) :
         (RuleType(ProbeSites[n]) = "url_regex" /\ re_error(RulePatterns(ProbeSites[n])[p]))
           => ~should_close_for("url_regex", RulePatterns(ProbeSites[n])[p], ProbeUrl)

\* A disabled rule whose pattern is in the URL, then a regex rule whose first
\* pattern is invalid and whose second matches: the second rule is named.
C8_Witness ==
  /\ pc = "probed"
  /\ Len(ProbeSites) = 2
  /\ ~RuleOn(ProbeSites[1]) /\ RuleHits(ProbeSites[1], ProbeUrl)
  /\ RuleType(ProbeSites[2]) = "url_regex"
  /\ re_error(RulePatterns(ProbeSites[2])[1])
  /\ verdict = Decision(TRUE, RuleName(ProbeSites[2]) \o ColonSpace \o ProbeUrl)

\* The host of a netloc: what follows the last '@', up to the port's ':'.
RECURSIVE AfterUserInfo(_)
AfterUserInfo(netloc) ==
  LET at == FindAny(netloc, {"@"}, 1)
  IN IF at = 0 THEN netloc ELSE AfterUserInfo(SubSeq(netloc, at + 1, Len(netloc)))

HostOf(url) ==
  LET hostport == AfterUserInfo(urlparse_netloc(url).netloc)
      colon == FindAny(hostport, {":"}, 1)
  IN lower(IF colon = 0 THEN hostport ELSE SubSeq(hostport, 1, colon - 1))

\* C9: for an enabled domain_exact rule a tab matches iff the host parsed from
\* its URL equals the pattern, compared case-insensitively: a subdomain does not
\* match, and a URL whose host is the pattern matches whatever its scheme,
\* port, user-info, path or query.
C9_DomainExactComparesHost ==
  ( /\ pc = "probed"
    /\ Len(ProbeSites) = 1
    /\ RuleOn(ProbeSites[1])
    /\ RuleType(ProbeSites[1]) = "domain_exact"
    /\ urlparse_netloc(ProbeUrl).ok )
  => ( verdict.close <=>
         \E p \in 1..Len(RulePatterns(ProbeSites[1])) :
           HostOf(ProbeUrl) = lower(RulePatterns(ProbeSites[1])[p]) )

====
